---------------------------- MODULE Spec2Model ----------------------------
(***************************************************************************)
(* A model of youtube-to-mp3-downloader: the YoutubeToMp3Downloader class  *)
(* of src/src/index.ts (constructor, download, _downloadByInfo and the     *)
(* handlers it attaches to the source stream, the progress tap and the     *)
(* encoder) and the command-line loop of src/unnamed/part_000.             *)
(*                                                                         *)
(* Strings the code inspects character by character (video titles) are     *)
(* sequences of one-character strings.  The collaborators the code drives  *)
(* through events (ytdl's stream, progress-stream's tap, fluent-ffmpeg's   *)
(* command) are the environment: each of their events is an action whose   *)
(* body is the handler the code attached to it.                            *)
(***************************************************************************)
EXTENDS Integers, Sequences, FiniteSets, TLC

(***************************************************************************)
(* Bounds of the model.                                                    *)
(***************************************************************************)
\* longest raw title the resolver returns in MetaSpec
MaxTitleLen == 4
\* most bytes a source stream carries
MaxBytes == 3
\* last clock tick (a tick is 500 ms)
MaxTime == 5
\* most video ids on the command line
MaxArgs == 2
\* most 'response' events one source stream emits (one per request ytdl makes)
MaxResponses == 2

(***************************************************************************)
(* Program constants.                                                      *)
(***************************************************************************)
DEFAULT_BITRATE == 192

\* CHAR_REPLACES: each entry is a global replace of one character by ''.
CHAR_REPLACES == <<"'", "|", "'", "/", "?", ":", ";">>

\* outputOptions holds a reference to an array object: "defaults" is the array
\* literal of line 80, shared by every downloader built without outputOptions
DEFAULT_OPTIONS ==
    [ outputPath          |-> "cwd",
      youtubeVideoQuality |-> "highestaudio",
      progressTimeout     |-> 1000,
      allowWebm           |-> FALSE,
      outputOptions       |-> "defaults" ]

(***************************************************************************)
(* String helpers: String.prototype.replace(/c/g, ''), indexOf, split and  *)
(* trim, on sequences of characters.                                       *)
(***************************************************************************)
ReplaceAll(s, c) == SelectSeq(s, LAMBDA x : x # c)

RECURSIVE cleanFrom(_, _)
cleanFrom(fileName, i) ==
    IF i > Len(CHAR_REPLACES) THEN fileName
    ELSE cleanFrom(ReplaceAll(fileName, CHAR_REPLACES[i]), i + 1)

cleanFileName(fileName) == cleanFrom(fileName, 1)

\* indexOf, 1-based; 0 when the character does not occur (JS: -1)
IndexOf(s, c) ==
    IF \E i \in 1..Len(s) : s[i] = c
    THEN CHOOSE i \in 1..Len(s) : s[i] = c /\ \A j \in 1..(i - 1) : s[j] # c
    ELSE 0

\* split(sep): every segment between separators, empty ones included
RECURSIVE Split(_, _)
Split(s, sep) ==
    LET i == IndexOf(s, sep) IN
    IF i = 0 THEN <<s>>
    ELSE <<SubSeq(s, 1, i - 1)>> \o Split(SubSeq(s, i + 1, Len(s)), sep)

IsSpace(c) == c = " "

RECURSIVE TrimLeft(_)
TrimLeft(s) ==
    IF s # <<>> /\ IsSpace(Head(s)) THEN TrimLeft(Tail(s)) ELSE s

RECURSIVE TrimRight(_)
TrimRight(s) ==
    IF s # <<>> /\ IsSpace(s[Len(s)]) THEN TrimRight(SubSeq(s, 1, Len(s) - 1)) ELSE s

Trim(s) == TrimRight(TrimLeft(s))

Unknown == <<"U", "n", "k", "n", "o", "w", "n">>

(***************************************************************************)
(* _downloadByInfo, lines 101-118: the cleaned title and the artist/title  *)
(* split.                                                                  *)
(***************************************************************************)
DeriveMetaNoTrim(rawTitle) ==
    LET vt   == cleanFileName(rawTitle)
        temp == Split(vt, "-")
    IN  IF IndexOf(vt, "-") > 0
        THEN IF Len(temp) >= 2
             THEN [videoTitle |-> vt, artist |-> temp[1], title |-> temp[2]]
             ELSE [videoTitle |-> vt, artist |-> Unknown, title |-> Unknown]
        ELSE [videoTitle |-> vt, artist |-> Unknown, title |-> vt]

DeriveMeta(rawTitle) ==
    LET vt   == cleanFileName(rawTitle)
        temp == Split(vt, "-")
    IN  IF IndexOf(vt, "-") > 0
        THEN IF Len(temp) >= 2
             THEN [videoTitle |-> vt, artist |-> Trim(temp[1]), title |-> Trim(temp[2])]
             ELSE [videoTitle |-> vt, artist |-> Unknown, title |-> Unknown]
        ELSE [videoTitle |-> vt, artist |-> Unknown, title |-> vt]


(***************************************************************************)
(* The output path, lines 120-123.  sanitizeFilename (sanitize-filename)   *)
(* removes the characters illegal in file names and then the trailing dots *)
(* and spaces; a name of dots only ('.', '..') becomes empty.              *)
(***************************************************************************)
IllegalChars == {"/", "?", "<", ">", "\\", ":", "*", "|", "\""}

RECURSIVE TrimTrailing(_)
TrimTrailing(s) ==
    IF s # <<>> /\ s[Len(s)] \in {".", " "}
    THEN TrimTrailing(SubSeq(s, 1, Len(s) - 1))
    ELSE s

sanitizeFilename(s) ==
    TrimTrailing(SelectSeq(s, LAMBDA c : c \notin IllegalChars))

Mp3 == <<".", "m", "p", "3">>

HasOption(opts, key) == key \in DOMAIN opts

\* a stem that ignores the source id
StemNoFallback(vt, id) == sanitizeFilename(vt)

\* `sanitizeFilename(videoTitle) || info.videoDetails.videoId`
Stem(vt, id) ==
    IF sanitizeFilename(vt) # <<>> THEN sanitizeFilename(vt) ELSE id

\* path.join(outputPath ?? '', fileName ?? `${stem}.mp3`)
FileNameOf(opts, vt, id) ==
    [ dir  |-> IF HasOption(opts, "outputPath") THEN opts.outputPath ELSE "",
      name |-> IF HasOption(opts, "fileName") THEN opts.fileName ELSE Stem(vt, id) \o Mp3 ]

(***************************************************************************)
(* The resolver's descriptors (ytdl.videoInfo): the raw title and the      *)
(* format variants, each with a container and an audio bitrate (0 when the *)
(* entry exposes none), and the id the source assigned to the media.       *)
(***************************************************************************)
Mp4Audio  == [container |-> "mp4",  audioBitrate |-> 128]
Mp4Video  == [container |-> "mp4",  audioBitrate |-> 0]
WebmAudio == [container |-> "webm", audioBitrate |-> 160]
WebmVideo == [container |-> "webm", audioBitrate |-> 0]

FormatLists ==
    { <<>>, <<Mp4Audio>>, <<WebmAudio>>, <<Mp4Video>>, <<WebmVideo>>,
      <<WebmAudio, Mp4Audio>>, <<WebmVideo, WebmAudio>>, <<Mp4Video, WebmAudio>>,
      <<Mp4Video, Mp4Audio>> }

Chars == {"a", "b", "-", " ", ":"}

RECURSIVE TitlesOfLen(_)
TitlesOfLen(n) ==
    IF n = 0 THEN { <<>> }
    ELSE { Append(t, c) : t \in TitlesOfLen(n - 1), c \in Chars }

AllTitles == UNION { TitlesOfLen(n) : n \in 0..MaxTitleLen }

SampleTitles == { <<"a", " ", "-", " ", "b">>, <<"a", ":", "b">> }

\* what the resolver answers in Spec and CliSpec, and in MetaSpec
Descriptors     == [title : SampleTitles, formats : FormatLists, videoId : {<<"v", "1">>}]
MetaDescriptors == [title : AllTitles, formats : {<<Mp4Audio>>},
                    videoId : {<<"v", "1">>, <<"v", "2">>}]
CliDescriptors  == [title : {<<"a", "-", "b">>}, formats : {<<>>, <<Mp4Audio>>, <<WebmAudio>>},
                    videoId : {<<"v", "1">>}]

VideoIds == {"v1", "v2"}

\* the options a caller passes to the constructor: any subset of the fields
CallerOptions ==
    { <<>>,
      [allowWebm |-> TRUE],
      [youtubeVideoQuality |-> "highest"],
      [allowWebm |-> TRUE, youtubeVideoQuality |-> "highest"],
      [fileName |-> <<"o", ".", "m", "p", "3">>],
      [outputOptions |-> "caller"],
      [outputOptions |-> "undefined"] }

\* one output directive: a literal string, or a prefix followed by a text
Opt(s) == [key |-> s, text |-> <<>>]

\* the array a caller passes as outputOptions
CallerExtras == <<Opt("-t"), Opt("30")>>

\* the array objects downloaders share with their surroundings, by reference:
\* DEFAULT_OPTIONS.outputOptions and the caller's outputOptions array
InitialArrays == [defaults |-> <<>>, caller |-> CallerExtras]

\* Object.assign({}, DEFAULT_OPTIONS, options ?? {})
MergeOptions(callerOptions) ==
    [k \in DOMAIN DEFAULT_OPTIONS \cup DOMAIN callerOptions |->
        IF k \in DOMAIN callerOptions THEN callerOptions[k] ELSE DEFAULT_OPTIONS[k]]

(***************************************************************************)
(* Values that stand for JavaScript's undefined / null.                    *)
(***************************************************************************)
NoInfo   == [title |-> <<>>, formats |-> <<>>, videoId |-> <<>>, none |-> TRUE]
NoStats  == [none |-> TRUE]
NoTap    == [none |-> TRUE]
NoFormat == [container |-> "none", audioBitrate |-> 0]
NoFile   == [dir |-> "", name |-> <<>>]
NoShelf  == [none |-> TRUE]

VARIABLES
    arrays,      \* the contents of the array objects options.outputOptions may refer to
    shelf,       \* the state of a second downloader while the first one's handlers run
    options,     \* this.options
    videoId,     \* this.videoId
    phase,       \* where download() is: idle, resolving, downloading, failed, crashed
    promise,     \* the promise download() returned: pending, resolved, rejected
    info,        \* the descriptor getInfo answered
    videoTitle,  \* _downloadByInfo's locals, captured by its handlers
    artist,
    title,
    fileName,    \* the output path: [dir, name]
    stats,
    stream,      \* ytdl's stream: none, created, requested, responded, ended, errored
    chosen,      \* the format ytdl selected for the stream
    tap,         \* str, the progress-stream instance
    encoder,     \* the ffmpeg command
    now,         \* the clock, in ticks of 500 ms
    events,      \* what the caller has received: progress events, then result or error
    cbCalls,     \* how many times _downloadByInfo's callback was invoked
    raised,      \* the errors the stream and the encoder raised, in order
    args,        \* process.argv.slice(2)
    idx,         \* how many ids main's loop has started
    cliPc        \* where main() is: none, main, usage, loop, awaiting, done, failed

vars == <<arrays, shelf, options, videoId, phase, promise, info, videoTitle, artist, title, fileName, stats,
          stream, chosen, tap, encoder, now, events, cbCalls, raised, args, idx, cliPc>>

runVars == <<options, videoId, phase, promise, info, videoTitle, artist, title, fileName, stats,
             stream, chosen, tap, encoder, events, cbCalls, raised>>

cliVars == <<args, idx, cliPc>>

Date_now == now * 500

(***************************************************************************)
(* ytdl.downloadFromInfo's format selection under the stream options of    *)
(* lines 125-132: the container filter when allowWebm is off, then the     *)
(* quality selector.                                                       *)
(***************************************************************************)
StreamFilterOff(opts, format) == TRUE

StreamFilter(opts, format) ==
    IF ~opts.allowWebm THEN format.container = "mp4" ELSE TRUE

ChooseFormat(formats, opts) ==
    LET passing == SelectSeq(formats, LAMBDA f : StreamFilter(opts, f))
        audio   == SelectSeq(passing, LAMBDA f : f.audioBitrate > 0)
        pool    == IF opts.youtubeVideoQuality = "highestaudio" THEN audio ELSE passing
    IN  IF pool = <<>> THEN NoFormat
        ELSE IF opts.youtubeVideoQuality = "highestaudio"
             THEN pool[CHOOSE i \in 1..Len(pool) :
                        /\ \A j \in 1..Len(pool) : pool[j].audioBitrate <= pool[i].audioBitrate
                        /\ \A j \in 1..(i - 1) : pool[j].audioBitrate < pool[i].audioBitrate]
             ELSE pool[1]

\* line 170: info.formats.find(format => !!format.audioBitrate), 0 when none
FindBitrateIndex(formats) ==
    IF \E i \in 1..Len(formats) : formats[i].audioBitrate # 0
    THEN CHOOSE i \in 1..Len(formats) :
            /\ formats[i].audioBitrate # 0
            /\ \A j \in 1..(i - 1) : formats[j].audioBitrate = 0
    ELSE 0

(***************************************************************************)
(* download()'s promise, lines 202-207.  resolve and reject act on a       *)
(* pending promise only; the caller's continuation receives the outcome.   *)
(***************************************************************************)
ErrorEvent(err)     == [type |-> "error", error |-> err]
ResultEvent(data)   == [type |-> "result", result |-> data]
ProgressEvent(p)    == [type |-> "progress", videoId |-> videoId, progress |-> p]

RejectAlways(err) ==
    /\ promise' = "rejected"
    /\ events' = Append(events, ErrorEvent(err))

Reject(err) ==
    IF promise = "pending"
    THEN /\ promise' = "rejected"
         /\ events' = Append(events, ErrorEvent(err))
    ELSE UNCHANGED <<promise, events>>

Resolve(data) ==
    IF promise = "pending"
    THEN /\ promise' = "resolved"
         /\ events' = Append(events, ResultEvent(data))
    ELSE UNCHANGED <<promise, events>>

NoError == "null"

\* a callback that resolves whatever it is given
CallbackIgnoringErr(err, data) ==
    /\ cbCalls' = cbCalls + 1
    /\ Resolve(data)

\* (err, data) => { if (err) return reject(err); resolve(data); }
Callback(err, data) ==
    /\ cbCalls' = cbCalls + 1
    /\ IF err # NoError THEN Reject(err) ELSE Resolve(data)

(***************************************************************************)
(* The progress tap (progress-stream, created at lines 139-142): it counts *)
(* the bytes of each chunk, emits a sample when the sampling interval has  *)
(* elapsed, and emits a last sample with percentage 100 when it ends.      *)
(* Percentages are floored to integers; with at most `length` bytes        *)
(* transferred this keeps their order and the test against 100 exact.      *)
(***************************************************************************)
\* parseInt(res.headers['content-length']), then progress-stream's `length || 0`
ParseLength(header) == IF header.present THEN header.value ELSE 0

NewTap(header) ==
    [ length      |-> ParseLength(header),
      time        |-> options.progressTimeout,
      transferred |-> 0,
      nextUpdate  |-> Date_now + options.progressTimeout,
      startTime   |-> Date_now,
      ended       |-> FALSE ]

TapSample(t, ended) ==
    [ percentage  |-> IF ended THEN 100
                      ELSE IF t.length # 0 THEN (t.transferred * 100) \div t.length
                      ELSE 0,
      transferred |-> t.transferred,
      length      |-> t.length,
      remaining   |-> IF t.length >= t.transferred THEN t.length - t.transferred ELSE 0,
      runtime     |-> (Date_now - t.startTime) \div 1000 ]

\* stats that record the bytes still missing
StatsOfRemaining(progress) ==
    [transferredBytes |-> progress.remaining, runtime |-> progress.runtime]

StatsOf(progress) ==
    [transferredBytes |-> progress.transferred, runtime |-> progress.runtime]

\* a listener that captures the stats of every sample
NextStatsAnySample(progress) == StatsOf(progress)

\* lines 146-152: the value of stats after the listener saw `progress`
NextStats(progress) ==
    IF progress.percentage = 100 THEN StatsOf(progress) ELSE stats

\* lines 145-154: str's 'progress' listener
OnProgress(progress) ==
    /\ stats' = NextStats(progress)
    /\ events' = Append(events, ProgressEvent(progress))

NoData    == [none |-> TRUE]
\* the ffmpeg command: its state, its bitrate, how many commands the run has
\* started, and how many bytes its input (the tap) had passed on when it ended
NoEncoder == [state |-> "none", audioBitrate |-> 0, outputOptions |-> <<>>, starts |-> 0,
              read |-> 0]

\* the content-length header of the response: absent, or a number of bytes
Headers == {[present |-> FALSE, value |-> 0]} \cup [present : {TRUE}, value : 1..MaxBytes]

Raise(err) == raised' = Append(raised, [error |-> err, at |-> Len(events)])

(***************************************************************************)
(* Init: a YoutubeToMp3Downloader has been constructed (lines 86-90) with  *)
(* some caller options; download() has not been called.                    *)
(***************************************************************************)
Init ==
    /\ arrays = InitialArrays
    /\ shelf = NoShelf
    /\ options \in { MergeOptions(o) : o \in CallerOptions }
    /\ videoId = "v1"
    /\ phase = "idle"
    /\ promise = "none"
    /\ info = NoInfo
    /\ videoTitle = <<>>
    /\ artist = <<>>
    /\ title = <<>>
    /\ fileName = NoFile
    /\ stats = NoStats
    /\ stream = "none"
    /\ chosen = NoFormat
    /\ tap = NoTap
    /\ encoder = NoEncoder
    /\ now = 0
    /\ events = <<>>
    /\ cbCalls = 0
    /\ raised = <<>>
    /\ args = <<>>
    /\ idx = 0
    /\ cliPc = "none"

\* download(), line 197: the resolver is called and the caller holds a pending promise
Download ==
    /\ phase = "idle"
    /\ phase' = "resolving"
    /\ promise' = "pending"
    /\ UNCHANGED <<arrays, shelf, options, videoId, info, videoTitle, artist, title, fileName, stats, stream,
                   chosen, tap, encoder, now, events, cbCalls, raised, cliVars>>

\* _downloadByInfo, lines 99-136: metadata, stream options, the stream and its
\* error and response listeners
DownloadByInfo(answer) ==
    /\ info' = answer
    /\ LET m == DeriveMeta(answer.title) IN
         /\ videoTitle' = m.videoTitle
         /\ artist' = m.artist
         /\ title' = m.title
         /\ fileName' = FileNameOf(options, m.videoTitle, answer.videoId)
    /\ stats' = NoStats
    /\ stream' = "created"
    /\ phase' = "downloading"

\* an exception that leaves download() without being reported
ThrowSwallowed(err) ==
    /\ phase' = "failed"
    /\ UNCHANGED <<promise, events, info, videoTitle, artist, title, fileName, stats, stream>>

\* lines 197-200: an exception in the body of the async download() (getInfo's
\* rejection at the await, or the throw of line 199) rejects the promise
\* download() returned; _downloadByInfo is not reached
Throw(err) ==
    /\ phase' = "failed"
    /\ Reject(err)
    /\ UNCHANGED <<info, videoTitle, artist, title, fileName, stats, stream>>

\* download(), lines 197-207: getInfo answers a descriptor, answers null, or fails
GetInfoReturns(pool) ==
    /\ phase = "resolving"
    /\ \/ /\ \E answer \in pool : DownloadByInfo(answer)
          /\ UNCHANGED <<promise, events>>
       \/ Throw("InvalidUrl")
       \/ Throw("ResolverError")
    /\ UNCHANGED <<arrays, shelf, options, videoId, chosen, tap, encoder, now, cbCalls, raised, cliVars>>

\* ytdl.downloadFromInfo's deferred start (line 134): it selects a format under the
\* stream options and requests it, or emits 'error' on the stream when none matches
StreamStart ==
    /\ phase = "downloading"
    /\ stream = "created"
    /\ LET format == ChooseFormat(info.formats, options) IN
         IF format = NoFormat
         THEN /\ stream' = "errored"
              /\ Raise("NoFormat")
              /\ Callback("NoFormat", NoData)
              /\ UNCHANGED chosen
         ELSE /\ stream' = "requested"
              /\ chosen' = format
              /\ UNCHANGED <<raised, promise, events, cbCalls>>
    /\ UNCHANGED <<arrays, shelf, options, videoId, phase, info, videoTitle, artist, title, fileName, stats,
                   tap, encoder, now, cliVars>>

\* line 170: the bitrate of the first format exposing one (`?? DEFAULT_BITRATE`
\* applies to an entry found without a bitrate)
AudioBitrateOf(formats, i) ==
    IF formats[i].audioBitrate = 0 THEN DEFAULT_BITRATE ELSE formats[i].audioBitrate

\* lines 156-163: the directives every command gets
MandatoryOptions(t, a) ==
    << Opt("-id3v2_version"), Opt("4"),
       Opt("-metadata"), [key |-> "title=", text |-> t],
       Opt("-metadata"), [key |-> "artist=", text |-> a] >>

\* a list built by writing the mandatory directives into the referenced array
BuildOutputOptionsInPlace(opts, heap, t, a) ==
    IF opts.outputOptions # "undefined"
    THEN LET l == MandatoryOptions(t, a) \o heap[opts.outputOptions]
         IN  [list |-> l, heap |-> [heap EXCEPT ![opts.outputOptions] = l]]
    ELSE [list |-> MandatoryOptions(t, a), heap |-> heap]

\* lines 156-167: the list handed to ffmpeg's outputOptions (line 177) and the
\* array objects afterwards; concat returns a new array
BuildOutputOptions(opts, heap, t, a) ==
    IF opts.outputOptions # "undefined"
    THEN [list |-> MandatoryOptions(t, a) \o heap[opts.outputOptions], heap |-> heap]
    ELSE [list |-> MandatoryOptions(t, a), heap |-> heap]

\* the 'response' listener, lines 138-193: the tap and its listener are created;
\* line 170 throws a TypeError when no format exposes a bitrate, which leaves
\* the listener before the stream is piped and the encoder is started, and ends
\* the process as an uncaught exception.  tap and encoder hold the objects of
\* the latest run of the listener, encoder.starts counts the ffmpeg commands
\* the listener has started.
ResponseListener ==
    /\ stream' = "responded"
    /\ \E header \in Headers : tap' = NewTap(header)
    /\ LET built == BuildOutputOptions(options, arrays, title, artist)
           i     == FindBitrateIndex(info.formats)
       IN  /\ arrays' = built.heap
           /\ IF i = 0
              THEN /\ phase' = "crashed"
                   /\ UNCHANGED encoder
              ELSE /\ encoder' = [state |-> "running",
                                  audioBitrate |-> AudioBitrateOf(info.formats, i),
                                  outputOptions |-> built.list,
                                  starts |-> encoder.starts + 1,
                                  read |-> 0]
                   /\ UNCHANGED phase
    /\ UNCHANGED <<shelf, options, videoId, promise, info, videoTitle, artist, title, fileName, stats,
                   chosen, now, events, cbCalls, raised, cliVars>>

\* the stream emits 'response' for the request ytdl made
StreamResponse ==
    /\ phase = "downloading"
    /\ stream = "requested"
    /\ ResponseListener

\* the stream emits 'response' again: the listener is registered with `on`
\* (line 138) and ytdl forwards the 'response' of every request it makes for
\* the stream (the next range of a chunked download, a reconnect)
StreamResponseAgain ==
    /\ phase = "downloading"
    /\ stream = "responded"
    /\ encoder.starts < MaxResponses
    /\ ResponseListener

\* a chunk of n bytes flows through the tap (stream.pipe(str), line 173)
StreamData ==
    /\ phase = "downloading"
    /\ stream = "responded"
    /\ \E n \in 1..MaxBytes :
         /\ tap.transferred + n <= (IF tap.length # 0 THEN tap.length ELSE MaxBytes)
         /\ LET t1 == [tap EXCEPT !.transferred = @ + n] IN
              IF Date_now >= tap.nextUpdate
              THEN /\ tap' = [t1 EXCEPT !.nextUpdate = Date_now + tap.time]
                   /\ OnProgress(TapSample(t1, FALSE))
              ELSE /\ tap' = t1
                   /\ UNCHANGED <<stats, events>>
    /\ UNCHANGED <<arrays, shelf, options, videoId, phase, promise, info, videoTitle, artist, title, fileName,
                   stream, chosen, encoder, now, cbCalls, raised, cliVars>>

\* the stream ends: the tap emits its last sample and ends the encoder's input
StreamEnd ==
    /\ phase = "downloading"
    /\ stream = "responded"
    /\ stream' = "ended"
    /\ tap' = [tap EXCEPT !.ended = TRUE, !.nextUpdate = Date_now + tap.time]
    /\ OnProgress(TapSample(tap, TRUE))
    /\ UNCHANGED <<arrays, shelf, options, videoId, phase, promise, info, videoTitle, artist, title, fileName,
                   chosen, encoder, now, cbCalls, raised, cliVars>>

\* line 136: stream.on('error', err => callback(err, null))
StreamError ==
    /\ phase = "downloading"
    /\ stream \in {"requested", "responded"}
    /\ stream' = "errored"
    /\ Raise("StreamError")
    /\ Callback("StreamError", NoData)
    /\ UNCHANGED <<arrays, shelf, options, videoId, phase, info, videoTitle, artist, title, fileName, stats,
                   chosen, tap, encoder, now, cliVars>>

\* line 178: .on('error', err => callback(err, null))
EncoderError ==
    /\ phase = "downloading"
    /\ encoder.state = "running"
    /\ encoder' = [encoder EXCEPT !.state = "errored"]
    /\ Raise("EncodingError")
    /\ Callback("EncodingError", NoData)
    /\ UNCHANGED <<arrays, shelf, options, videoId, phase, info, videoTitle, artist, title, fileName, stats,
                   stream, chosen, tap, now, cliVars>>

\* lines 180-189
ResultObj ==
    [ videoId    |-> videoId,
      stats      |-> stats,
      file       |-> fileName,
      videoTitle |-> videoTitle,
      artist     |-> artist,
      title      |-> title ]

\* lines 179-191: .on('end', ...), the encoder's completion signal
EncoderEnd ==
    /\ phase = "downloading"
    /\ encoder.state = "running"
    /\ encoder' = [encoder EXCEPT !.state = "ended", !.read = tap.transferred]
    /\ Callback(NoError, ResultObj)
    /\ UNCHANGED <<arrays, shelf, options, videoId, phase, info, videoTitle, artist, title, fileName, stats,
                   stream, chosen, tap, now, raised, cliVars>>

\* time passes
Tick ==
    /\ now < MaxTime
    /\ now' = now + 1
    /\ UNCHANGED <<arrays, shelf, runVars, cliVars>>

Next ==
    \/ Download
    \/ GetInfoReturns(Descriptors)
    \/ StreamStart
    \/ StreamResponse
    \/ StreamData
    \/ StreamEnd
    \/ StreamError
    \/ EncoderError
    \/ EncoderEnd
    \/ Tick

Spec == Init /\ [][Next]_vars

(***************************************************************************)
(* ChunkSpec: a run whose stream is served by more than one request, each  *)
(* announced by a 'response'; the clock stands still.                      *)
(***************************************************************************)
ChunkNext ==
    \/ Download
    \/ GetInfoReturns(CliDescriptors)
    \/ StreamStart
    \/ StreamResponse
    \/ StreamResponseAgain
    \/ StreamData
    \/ StreamEnd
    \/ StreamError
    \/ EncoderError
    \/ EncoderEnd

ChunkSpec == Init /\ [][ChunkNext]_vars

(***************************************************************************)
(* ConcSpec: two downloaders for different video ids run at once.  The     *)
(* variables hold the downloader whose handler runs; the other one's       *)
(* fields and the locals its handlers captured wait in shelf.  Only arrays *)
(* (module-level and caller-owned objects) belongs to both.  The clock     *)
(* stands still.                                                           *)
(***************************************************************************)
\* this.options, this.videoId, the promise and the subscribers' record of one
\* downloader, and the locals of its _downloadByInfo call
RunState ==
    [ options |-> options, videoId |-> videoId, phase |-> phase, promise |-> promise,
      info |-> info, videoTitle |-> videoTitle, artist |-> artist, title |-> title,
      fileName |-> fileName, stats |-> stats, stream |-> stream, chosen |-> chosen,
      tap |-> tap, encoder |-> encoder, events |-> events, cbCalls |-> cbCalls,
      raised |-> raised ]

\* a downloader just constructed for id with the caller's options o
NewDownloader(id, o) ==
    [ options |-> MergeOptions(o), videoId |-> id, phase |-> "idle", promise |-> "none",
      info |-> NoInfo, videoTitle |-> <<>>, artist |-> <<>>, title |-> <<>>,
      fileName |-> NoFile, stats |-> NoStats, stream |-> "none", chosen |-> NoFormat,
      tap |-> NoTap, encoder |-> NoEncoder, events |-> <<>>, cbCalls |-> 0,
      raised |-> <<>> ]

\* handlers that all write one `stats`
RestoreSharedStats(s) ==
    /\ options' = s.options
    /\ videoId' = s.videoId
    /\ phase' = s.phase
    /\ promise' = s.promise
    /\ info' = s.info
    /\ videoTitle' = s.videoTitle
    /\ artist' = s.artist
    /\ title' = s.title
    /\ fileName' = s.fileName
    /\ UNCHANGED stats
    /\ stream' = s.stream
    /\ chosen' = s.chosen
    /\ tap' = s.tap
    /\ encoder' = s.encoder
    /\ events' = s.events
    /\ cbCalls' = s.cbCalls
    /\ raised' = s.raised

\* the handlers of the other downloader run next: they see their own instance
\* (this) and the locals their own _downloadByInfo call declared (lines 100-123)
Restore(s) ==
    /\ options' = s.options
    /\ videoId' = s.videoId
    /\ phase' = s.phase
    /\ promise' = s.promise
    /\ info' = s.info
    /\ videoTitle' = s.videoTitle
    /\ artist' = s.artist
    /\ title' = s.title
    /\ fileName' = s.fileName
    /\ stats' = s.stats
    /\ stream' = s.stream
    /\ chosen' = s.chosen
    /\ tap' = s.tap
    /\ encoder' = s.encoder
    /\ events' = s.events
    /\ cbCalls' = s.cbCalls
    /\ raised' = s.raised

\* the event loop turns to a callback of the other downloader
Switch ==
    /\ shelf # NoShelf
    /\ shelf' = RunState
    /\ Restore(shelf)
    /\ UNCHANGED <<arrays, now, cliVars>>

IdChars(id) == IF id = "v1" THEN <<"v", "1">> ELSE <<"v", "2">>

\* what the resolver answers for each of the two ids
ConcDescriptors(id) ==
    [ title   : {IF id = "v1" THEN <<"a", "-", "b">> ELSE <<"b", "b">>},
      formats : {<<Mp4Audio>>},
      videoId : {IdChars(id)} ]

ConcInit ==
    /\ arrays = InitialArrays
    /\ shelf = NewDownloader("v2", [outputOptions |-> "caller"])
    /\ options = MergeOptions(<<>>)
    /\ videoId = "v1"
    /\ phase = "idle"
    /\ promise = "none"
    /\ info = NoInfo
    /\ videoTitle = <<>>
    /\ artist = <<>>
    /\ title = <<>>
    /\ fileName = NoFile
    /\ stats = NoStats
    /\ stream = "none"
    /\ chosen = NoFormat
    /\ tap = NoTap
    /\ encoder = NoEncoder
    /\ now = 0
    /\ events = <<>>
    /\ cbCalls = 0
    /\ raised = <<>>
    /\ args = <<>>
    /\ idx = 0
    /\ cliPc = "none"

ConcNext ==
    \/ Switch
    \/ Download
    \/ GetInfoReturns(ConcDescriptors(videoId))
    \/ StreamStart
    \/ StreamResponse
    \/ StreamData
    \/ StreamEnd
    \/ StreamError
    \/ EncoderError
    \/ EncoderEnd

ConcSpec == ConcInit /\ [][ConcNext]_vars

(***************************************************************************)
(* MetaSpec: resolution and metadata derivation over every raw title of    *)
(* up to MaxTitleLen characters.                                           *)
(***************************************************************************)
MetaNext ==
    \/ Download
    \/ GetInfoReturns(MetaDescriptors)

MetaSpec == Init /\ [][MetaNext]_vars

(***************************************************************************)
(* The command line, src/unnamed/part_000: main() downloads its arguments  *)
(* one after the other, each with a new downloader and default options.    *)
(***************************************************************************)
RECURSIVE ArgLists(_)
ArgLists(n) ==
    IF n = 0 THEN { <<>> }
    ELSE ArgLists(n - 1) \cup { Append(a, v) : a \in { b \in ArgLists(n - 1) : Len(b) = n - 1 },
                                               v \in VideoIds }

CliInit ==
    /\ args \in ArgLists(MaxArgs)
    /\ idx = 0
    /\ cliPc = "main"
    /\ arrays = InitialArrays
    /\ shelf = NoShelf
    /\ options = MergeOptions(<<>>)
    /\ videoId = ""
    /\ phase = "idle"
    /\ promise = "none"
    /\ info = NoInfo
    /\ videoTitle = <<>>
    /\ artist = <<>>
    /\ title = <<>>
    /\ fileName = NoFile
    /\ stats = NoStats
    /\ stream = "none"
    /\ chosen = NoFormat
    /\ tap = NoTap
    /\ encoder = NoEncoder
    /\ now = 0
    /\ events = <<>>
    /\ cbCalls = 0
    /\ raised = <<>>

\* main(), lines 12-16: the usage text when there is no argument
CliMain ==
    /\ cliPc = "main"
    /\ cliPc' = IF Len(args) = 0 THEN "usage" ELSE "loop"
    /\ UNCHANGED <<arrays, shelf, runVars, now, args, idx>>

\* main(), line 18, and download(vid), lines 4-8: the next id gets a new
\* downloader (default options) whose download() is called and awaited; after
\* the last id main returns
CliLoop ==
    /\ cliPc = "loop"
    /\ phase # "crashed"
    /\ IF idx < Len(args)
       THEN /\ idx' = idx + 1
            /\ cliPc' = "awaiting"
            /\ options' = MergeOptions(<<>>)
            /\ videoId' = args[idx + 1]
            /\ phase' = "resolving"
            /\ promise' = "pending"
            /\ info' = NoInfo
            /\ videoTitle' = <<>>
            /\ artist' = <<>>
            /\ title' = <<>>
            /\ fileName' = NoFile
            /\ stats' = NoStats
            /\ stream' = "none"
            /\ chosen' = NoFormat
            /\ tap' = NoTap
            /\ encoder' = NoEncoder
            /\ events' = <<>>
            /\ cbCalls' = 0
            /\ raised' = <<>>
       ELSE /\ cliPc' = "done"
            /\ UNCHANGED <<runVars, idx>>
    /\ UNCHANGED <<arrays, shelf, now, args>>

\* `await downloader.download()` (line 8) and `await download(vid)` (line 19)
\* resume: a resolved promise continues the loop, a rejected one throws out of
\* download(vid) and out of main()
CliResume ==
    /\ cliPc = "awaiting"
    /\ phase # "crashed"
    /\ promise \in {"resolved", "rejected"}
    /\ cliPc' = IF promise = "resolved" THEN "loop" ELSE "failed"
    /\ UNCHANGED <<arrays, shelf, runVars, now, args, idx>>

CliNext ==
    \/ CliMain
    \/ CliLoop
    \/ CliResume
    \/ GetInfoReturns(CliDescriptors)
    \/ StreamStart
    \/ StreamResponse
    \/ StreamData
    \/ StreamEnd
    \/ StreamError
    \/ EncoderError
    \/ EncoderEnd
    \/ Tick

CliSpec == CliInit /\ [][CliNext]_vars

(***************************************************************************)
(* Properties.                                                             *)
(***************************************************************************)
Terminals   == { i \in 1..Len(events) : events[i].type \in {"result", "error"} }
ProgressIdx == { i \in 1..Len(events) : events[i].type = "progress" }
HundredIdx  == { i \in ProgressIdx : events[i].progress.percentage = 100 }

\* C1: the caller of download() receives at most one terminal outcome (one
\* result or one error, never two, never both), however often the completion
\* callback of _downloadByInfo is invoked.
C1_AtMostOneOutcome == Cardinality(Terminals) <= 1

\* the callback was invoked twice (two of: stream error, encoder error, encoder
\* end) and the caller holds one outcome
C1_CallbackTwice == cbCalls >= 2 /\ Cardinality(Terminals) = 1

\* C2: the terminal result or error is the last event of the run: no progress
\* event follows it.
C2_TerminalIsLast ==
    \A i \in Terminals : \A j \in ProgressIdx : j < i

\* a step of the run: any handler of the resolver, the stream or the encoder
RunStep ==
    \/ GetInfoReturns(Descriptors)
    \/ StreamStart
    \/ StreamResponse
    \/ StreamData
    \/ StreamEnd
    \/ StreamError
    \/ EncoderError
    \/ EncoderEnd

\* C3: every run started by download() delivers a terminal outcome: a run in
\* which no handler can fire any more (the resolver answered, the stream and
\* the encoder have signalled all they will) has resolved or rejected.
C3_NoRunLeftPending ==
    (phase # "idle" /\ ~ENABLED RunStep) => promise \in {"resolved", "rejected"}

\* C4: when the stream or the encoder raises an error during a run (no result
\* delivered before it), the run's outcome is that first error, no result is
\* ever delivered, and the events before the error in the caller's log are
\* exactly those emitted before the error was raised.
C4_FirstErrorWins ==
    (/\ raised # <<>>
     /\ \A i \in 1..raised[1].at : events[i].type # "result")
    => /\ promise = "rejected"
       /\ Len(events) > raised[1].at
       /\ events[raised[1].at + 1] = ErrorEvent(raised[1].error)
       /\ \A i \in 1..raised[1].at : events[i].type = "progress"
       /\ \A i \in 1..Len(events) : events[i].type # "result"

\* an error raised after data flowed and a progress event was emitted
C4_ErrorAfterProgress ==
    /\ raised # <<>>
    /\ raised[1].at >= 1
    /\ events[1].type = "progress"
    /\ promise = "rejected"

\* C5: a delivered result carries stats if and only if a progress sample with
\* percentage 100 was observed before the encoder signalled end; with no such
\* sample the stats are absent.
C5_StatsIffHundred ==
    \A r \in 1..Len(events) :
        events[r].type = "result" =>
            ((events[r].result.stats # NoStats) <=> (\E i \in HundredIdx : i < r))

\* a result without stats, delivered after a sample below 100 was observed
C5_ResultWithoutStats ==
    \E r \in 1..Len(events) :
        /\ events[r].type = "result"
        /\ events[r].result.stats = NoStats
        /\ \E i \in ProgressIdx : i < r /\ events[i].progress.percentage < 100

\* C6: with a known total length, the progress samples of a run are
\* non-decreasing in runtime and in percentage, and exactly one of them has
\* percentage 100: the last one (none while the tap has not ended).
C6_OneHundredSampleLast ==
    (tap # NoTap /\ tap.length # 0) =>
        /\ \A i, j \in ProgressIdx :
              i < j => /\ events[i].progress.runtime <= events[j].progress.runtime
                       /\ events[i].progress.percentage <= events[j].progress.percentage
        /\ Cardinality(HundredIdx) <= 1
        /\ \A i \in HundredIdx : \A j \in ProgressIdx : j <= i
        /\ tap.ended => Cardinality(HundredIdx) = 1

OnlyNonMp4(formats) ==
    /\ formats # <<>>
    /\ \A i \in 1..Len(formats) : formats[i].container # "mp4"

\* C7: with allowWebm false and a descriptor holding only non-mp4 variants the
\* run fails before any byte is streamed: no format is selected, no response is
\* processed, no progress event is emitted, the encoder is never started, and
\* once the stream has started the caller holds the error and nothing else.
C7_HardContainerFilter ==
    (~options.allowWebm /\ phase = "downloading" /\ OnlyNonMp4(info.formats)) =>
        /\ stream \in {"created", "errored"}
        /\ chosen = NoFormat
        /\ tap = NoTap
        /\ encoder.state = "none"
        /\ ProgressIdx = {}
        /\ stream = "errored" => /\ promise = "rejected"
                                 /\ events = <<ErrorEvent("NoFormat")>>

\* such a run, failed
C7_WebmOnlyRejected ==
    /\ ~options.allowWebm
    /\ phase = "downloading"
    /\ OnlyNonMp4(info.formats)
    /\ promise = "rejected"

\* C8: in main's loop the failure of one id's download does not stop the loop:
\* when main is over, download has been started for every argument.
C8_LoopSurvivesFailure ==
    cliPc \in {"done", "failed"} => idx = Len(args)

\* x is s without its leading and trailing spaces
IsTrimOf(x, s) ==
    \E i \in 1..(Len(s) + 1) : \E j \in 0..Len(s) :
        /\ x = SubSeq(s, i, j)
        /\ \A k \in 1..(i - 1) : s[k] = " "
        /\ \A k \in (j + 1)..Len(s) : s[k] = " "
        /\ x # <<>> => (x[1] # " " /\ x[Len(x)] # " ")

Hyphens(s) == { i \in 1..Len(s) : s[i] = "-" }

FirstHyphen(s) == CHOOSE i \in Hyphens(s) : \A j \in Hyphens(s) : i <= j

\* C9: for a cleaned title containing a hyphen, artist is the trimmed text
\* before the first hyphen and title is the trimmed whole remainder after the
\* first hyphen.
C9_SplitOnFirstHyphen ==
    (phase = "downloading" /\ Hyphens(videoTitle) # {}) =>
        LET h == FirstHyphen(videoTitle) IN
            /\ IsTrimOf(artist, SubSeq(videoTitle, 1, h - 1))
            /\ IsTrimOf(title, SubSeq(videoTitle, h + 1, Len(videoTitle)))

\* the cleaned title has exactly one hyphen and both halves have a character
\* other than a space
OneHyphenTwoHalves(s) ==
    /\ Cardinality(Hyphens(s)) = 1
    /\ \E k \in 1..(FirstHyphen(s) - 1) : s[k] # " "
    /\ \E k \in (FirstHyphen(s) + 1)..Len(s) : s[k] # " "

\* C10: for a (cleaned) title with exactly one hyphen and non-empty trimmed
\* halves, artist is the trimmed half before the hyphen and title the trimmed
\* half after it.
C10_OneHyphenSplit ==
    (phase = "downloading" /\ OneHyphenTwoHalves(videoTitle)) =>
        LET h == FirstHyphen(videoTitle) IN
            /\ IsTrimOf(artist, SubSeq(videoTitle, 1, h - 1))
            /\ IsTrimOf(title, SubSeq(videoTitle, h + 1, Len(videoTitle)))
            /\ artist # <<>>
            /\ title # <<>>

\* such a title, where trimming removed a space
C10_TrimmedHalves ==
    /\ phase = "downloading"
    /\ OneHyphenTwoHalves(videoTitle)
    /\ Len(artist) + Len(title) + 1 < Len(videoTitle)

FileStem == SubSeq(fileName.name, 1, Len(fileName.name) - Len(Mp3))

FileExt == SubSeq(fileName.name, Len(fileName.name) - Len(Mp3) + 1, Len(fileName.name))

\* C11: with no explicit output filename, the file name is a stem followed by
\* .mp3; the stem is the source-assigned media id when the sanitized title is
\* empty and the sanitized title otherwise.
C11_StemFallsBackToId ==
    (phase = "downloading" /\ ~HasOption(options, "fileName")) =>
        /\ FileExt = Mp3
        /\ sanitizeFilename(videoTitle) = <<>> => FileStem = info.videoId
        /\ sanitizeFilename(videoTitle) # <<>> => FileStem = sanitizeFilename(videoTitle)

\* a non-empty cleaned title that sanitizes to nothing, named after the id
C11_EmptySanitizedTitle ==
    /\ phase = "downloading"
    /\ ~HasOption(options, "fileName")
    /\ videoTitle # <<>>
    /\ sanitizeFilename(videoTitle) = <<>>
    /\ FileStem = info.videoId

\* C12: after the first error of a run the remaining chain is cancelled: the
\* tap forwards no further chunk and emits no further sample, and the encoder
\* is not left running and signals nothing more.
C12_ErrorCancelsChain ==
    [][raised # <<>> =>
          /\ tap' = tap
          /\ ProgressIdx' = ProgressIdx
          /\ encoder.state # "running"
          /\ encoder' = encoder]_vars

BitrateExposed(formats) == { i \in 1..Len(formats) : formats[i].audioBitrate # 0 }

\* C13: once the response has been handled the encoder has been started with
\* the bitrate of the first format entry that exposes one, or with
\* DEFAULT_BITRATE when no entry exposes a bitrate; the handler does not fail.
C13_BitrateOrDefault ==
    tap # NoTap =>
        /\ phase # "crashed"
        /\ encoder.state # "none"
        /\ LET E == BitrateExposed(info.formats) IN
             encoder.audioBitrate =
                IF E = {} THEN DEFAULT_BITRATE
                ELSE info.formats[CHOOSE i \in E : \A j \in E : i <= j].audioBitrate


\* C14: when the response declared no content length, no progress sample of
\* the run reports percentage 0 or 100, and no stats are captured.
C14_UnknownLengthIndeterminate ==
    (tap # NoTap /\ tap.length = 0) =>
        /\ \A i \in ProgressIdx : events[i].progress.percentage \notin {0, 100}
        /\ stats = NoStats

\* the segments of s between hyphens that keep a character after trimming
NonEmptySegments(s) ==
    LET temp == Split(s, "-") IN { i \in 1..Len(temp) : Trim(temp[i]) # <<>> }

\* C15: for a cleaned title containing a hyphen with fewer than two non-empty
\* trimmed segments, artist is "Unknown" and title is the whole cleaned title;
\* for a non-empty cleaned title neither artist nor title is empty.
C15_FallbackOnEmptySegment ==
    phase = "downloading" =>
        /\ (Hyphens(videoTitle) # {} /\ Cardinality(NonEmptySegments(videoTitle)) < 2)
              => (artist = Unknown /\ title = videoTitle)
        /\ videoTitle # <<>> => (artist # <<>> /\ title # <<>>)


\* C16: the stages of a run follow in order: the source stream exists only
\* once the resolver has returned a descriptor, an ffmpeg command is started
\* only by the stream's response and only when none was started before in the
\* run, and a result is delivered only by the step in which the encoder
\* signals its end.
C16_StagesInOrder ==
    [][/\ stream' # "none" => info' # NoInfo
       /\ encoder'.starts # encoder.starts =>
             /\ stream' = "responded"
             /\ encoder.starts = 0
             /\ encoder'.starts = 1
       /\ (Len(events') > Len(events) /\ events'[Len(events')].type = "result") =>
             /\ encoder.state = "running"
             /\ encoder'.state = "ended"]_vars


\* C17: when the resolver answers no descriptor or fails, download() rejects
\* with that error and the error is the only event of the run: no stream was
\* created, no tap or encoder exists, no progress event was emitted and the
\* pipeline's callback was never invoked.
C17_ResolutionFailureOnlyRejects ==
    phase = "failed" =>
        /\ promise = "rejected"
        /\ Len(events) = 1
        /\ events[1].type = "error"
        /\ events[1].error \in {"InvalidUrl", "ResolverError"}
        /\ info = NoInfo
        /\ stream = "none"
        /\ tap = NoTap
        /\ encoder = NoEncoder
        /\ cbCalls = 0

\* the resolver answered null and the run was rejected with 'Invalid url'
C17_InvalidUrlRejected ==
    /\ phase = "failed"
    /\ promise = "rejected"
    /\ events = <<ErrorEvent("InvalidUrl")>>


ResultIdx == { i \in Terminals : events[i].type = "result" }

\* the result at index r carries the stats of a sample with percentage 100
\* and `bytes` transferred that was emitted before it
StatsFromHundred(r, bytes) ==
    /\ events[r].result.stats # NoStats
    /\ events[r].result.stats.transferredBytes = bytes
    /\ \E i \in HundredIdx : i < r /\ events[i].progress.transferred = bytes

LastHundredBefore(r) ==
    CHOOSE i \in HundredIdx : i < r /\ \A j \in HundredIdx : j < r => j <= i

C19_MandatoryThenExtras ==
    /\ arrays = InitialArrays
    /\ encoder.starts > 0 =>
          /\ SubSeq(encoder.outputOptions, 1, 6) =
                << Opt("-id3v2_version"), Opt("4"),
                   Opt("-metadata"), [key |-> "title=", text |-> title],
                   Opt("-metadata"), [key |-> "artist=", text |-> artist] >>
          /\ SubSeq(encoder.outputOptions, 7, Len(encoder.outputOptions)) =
                IF options.outputOptions = "caller" THEN CallerExtras ELSE <<>>

\* a command started with the caller's extra directives
C19_StartedWithExtras ==
    /\ encoder.starts > 0
    /\ options.outputOptions = "caller"
    /\ Len(encoder.outputOptions) = 6 + Len(CallerExtras)


\* the downloader for id: the one whose handlers run, or the one in shelf
Inst(id) == IF videoId = id THEN RunState ELSE shelf

HundredIn(ev) ==
    { i \in 1..Len(ev) : ev[i].type = "progress" /\ ev[i].progress.percentage = 100 }

\* the stats a result at index r of ev must carry: those of the last sample
\* with percentage 100 before it in ev, or none
OwnStats(ev, r) ==
    LET H == { i \in HundredIn(ev) : i < r } IN
        IF H = {} THEN NoStats
        ELSE [ transferredBytes |-> ev[CHOOSE i \in H : \A j \in H : j <= i].progress.transferred,
               runtime |-> ev[CHOOSE i \in H : \A j \in H : j <= i].progress.runtime ]

\* C20: with two downloaders for different ids running at once, every
\* progress event a downloader's subscribers received carries that
\* downloader's id, and its result holds its own id, the title, artist and
\* path derived from its own descriptor and options, and the stats of its own
\* last 100% sample (none when its subscribers saw no such sample).
C20_RunsDoNotMix ==
    shelf # NoShelf =>
        \A id \in VideoIds :
            LET s == Inst(id) IN
                /\ s.videoId = id
                /\ \A k \in 1..Len(s.events) :
                      /\ s.events[k].type = "progress" => s.events[k].videoId = id
                      /\ s.events[k].type = "result" =>
                            LET res == s.events[k].result
                                m   == DeriveMeta(s.info.title)
                            IN  /\ res.videoId = id
                                /\ s.info.videoId = IdChars(id)
                                /\ res.videoTitle = m.videoTitle
                                /\ res.artist = m.artist
                                /\ res.title = m.title
                                /\ res.file = FileNameOf(s.options, m.videoTitle, IdChars(id))
                                /\ res.stats = OwnStats(s.events, k)

\* both downloaders have delivered a result with stats, and the two stats
\* differ
C20_TwoResults ==
    /\ shelf # NoShelf
    /\ \E i \in 1..Len(Inst("v1").events) : \E j \in 1..Len(Inst("v2").events) :
          /\ Inst("v1").events[i].type = "result"
          /\ Inst("v2").events[j].type = "result"
          /\ Inst("v1").events[i].result.stats # NoStats
          /\ Inst("v2").events[j].result.stats # NoStats
          /\ Inst("v1").events[i].result.stats # Inst("v2").events[j].result.stats

=============================================================================
